---- MODULE Spec2Model ----
(***************************************************************************)
(* The pull-request review action of ai-codereviewer as a state machine.   *)
(*                                                                         *)
(* Two programs live in the repository and both are modelled:              *)
(*   - src/main.ts (lines 1-300): the current entry point. It resolves the *)
(*     existing review comments, fetches the diff, asks the model for a    *)
(*     critique of every hunk and for a fix of every finding, appends a    *)
(*     score comment and posts one review.  Its run is Spec.               *)
(*   - unnamed/part_000: the variant with the `exclude` path filter and no *)
(*     fix suggestions and no score.  Its run is SpecFilter.               *)
(* SpecScore applies the pure function calculatePRScore to bounded inputs. *)
(* SpecConfig is the run of src/main.ts under every setting of the inputs. *)
(*                                                                         *)
(* The program is single-threaded: it runs from one await to the next      *)
(* without interruption.  A state is "the run awaits the answer to request *)
(* X"; a step takes an answer chosen by the environment (success, failure, *)
(* the returned data), runs the code up to the next request and sends it.  *)
(* Scores are kept in tenths, so 0.5, 0.3, 0.2 and 5 become 5, 3, 2, 50.   *)
(***************************************************************************)
EXTENDS Integers, Sequences, FiniteSets, TLC

VARIABLES
    pc,               \* the request the run awaits, or "start" / "exit"
    exitCode,         \* process exit code, meaningful when pc = "exit"
    prog,             \* "main" (src/main.ts), "filter" (part_000), "score"
    payload,          \* content of the file at GITHUB_EVENT_PATH
    remote,           \* host side: remote[id] = number of marker lines
                      \*   appended to existing review comment id
    existingComments, \* ids returned by listReviewComments
    ei,               \* number of entries of existingComments handled
    updateLog,        \* updateReviewComment calls answered: [id, ok]
    parsedDiff,       \* parseDiff(diff)
    exclude,          \* pieces of core.getInput("exclude").split(",")
    analyzed,         \* argument of analyzeCode
    hk,               \* index in ReviewedHunks(analyzed) of the current hunk
    aiResponses,      \* review entries of the current hunk
    ri,               \* number of entries of aiResponses handled
    comments,         \* the array analyzeCode accumulates
    lastResp,         \* kind of the last critique response received
    critiqueLog,      \* hunks a critique request was issued for, in order
    returned,         \* number of review entries the model returned so far
    calls,            \* number of calls made, per endpoint
    posted,           \* `comments` argument of each createReview call
    stats,            \* DiffStats
    score,            \* calculatePRScore(stats), in tenths
    config,           \* the action's inputs, as core.getInput returns them
    jsonMode,         \* per critique request: response_format was json_object
    diffResp,         \* answer to the diff request: throw / empty / text
    lastReviews       \* type of `reviews` in the last critique response

vars == <<pc, exitCode, prog, payload, remote, existingComments, ei, updateLog,
          parsedDiff, exclude, analyzed, hk, aiResponses, ri, comments,
          lastResp, critiqueLog, returned, calls, posted, stats, score,
          config, jsonMode, diffResp, lastReviews>>

-----------------------------------------------------------------------------
(* Bounds                                                                  *)

MaxFiles == 3       \* file entries in a diff
MaxFindings == 2    \* review entries the model returns in one run
MaxExisting == 2    \* review comments on the PR before the run
MaxCount == 3       \* each count of a DiffStats given to calculatePRScore
MaxPatterns == 2    \* comma-separated pieces of the exclude input

-----------------------------------------------------------------------------
(* Values                                                                  *)

\* Number(x): a JavaScript number is [nan, n]; NaN is [nan |-> TRUE].
Num(n) == [nan |-> FALSE, n |-> n]
NaN == [nan |-> TRUE, n |-> 0]

\* A JSON string used as lineNumber: of digits, or of anything else.
JNumericString(n) == [t |-> "string", n |-> n, numeric |-> TRUE]
JString == [t |-> "string", n |-> 0, numeric |-> FALSE]

Number(v) == IF v.numeric THEN Num(v.n) ELSE NaN

\* `${x}` of a string or of undefined
Undefined == "undefined"
TemplateString(s) == s

DELETED == "/dev/null"

ChunkA ==
    [content |-> "@@ -4,3 +4,3 @@",
     changes |-> << [type |-> "normal", ln |-> 4], [type |-> "del", ln |-> 5],
                    [type |-> "add", ln |-> 5],
                    [type |-> "normal", ln |-> 6] >>]
ChunkB ==
    [content |-> "@@ -9,0 +10,2 @@",
     changes |-> << [type |-> "add", ln |-> 10], [type |-> "add", ln |-> 11] >>]
ChunkC ==
    [content |-> "@@ -1,2 +0,0 @@",
     changes |-> << [type |-> "del", ln |-> 1], [type |-> "del", ln |-> 2] >>]

\* File entries parseDiff can return.
Files ==
    { [to |-> "a/b.ts", chunks |-> <<ChunkA, ChunkB>>],
      [to |-> "a/b.test.ts", chunks |-> <<ChunkA>>],
      [to |-> DELETED, chunks |-> <<ChunkC>>] }

SeqsUpTo(S, n) == UNION { [1..k -> S] : k \in 0..n }

\* A diff lists a file once.
Diffs ==
    { d \in SeqsUpTo(Files, MaxFiles) :
        \A i, j \in DOMAIN d : i # j => d[i] # d[j] }

\* Entries of a `reviews` array.
Entries ==
    { [lineNumber |-> JNumericString(5), reviewComment |-> "c1"],
      [lineNumber |-> JString, reviewComment |-> Undefined] }

\* What the chat completion call gives back.
\*   throw   : the call rejects (transport error, timeout, non-2xx status)
\*   empty   : content is null or ""
\*   badjson : content is not parseable JSON
\*   json    : content parses to an object; `reviews` is an array, absent,
\*             or some other truthy value that is not iterable
ReviewsValues(budget) ==
    { [t |-> "array", items |-> s] : s \in SeqsUpTo(Entries, budget) }
      \cup { [t |-> "undefined", items |-> << >>],
             [t |-> "object", items |-> << >>] }

\* typeof-like tag of `reviews` in a response, "none" without parsed JSON.
reviewsType(resp) == IF resp.kind = "json" THEN resp.reviews.t ELSE "none"

ChatResponses(budget) ==
    { [kind |-> k, reviews |-> [t |-> "undefined", items |-> << >>]] :
          k \in {"throw", "empty", "badjson"} }
      \cup { [kind |-> "json", reviews |-> r] : r \in ReviewsValues(budget) }

\* What the completion call of suggestCodeFix gives back: text, or a throw.
FixResponses == { [ok |-> TRUE, text |-> " x "], [ok |-> FALSE, text |-> ""] }

Trim(s) ==
    CASE s = " x " -> "x"
      [] s = " **/*.test.ts" -> "**/*.test.ts"
      [] OTHER -> s

\* Pieces of the `exclude` input between commas, as typed.
ExcludePieces == {"", " **/*.test.ts", "a/**"}

ExcludeInputs == SeqsUpTo(ExcludePieces, MaxPatterns) \ {<< >>}

\* minimatch(path, pattern) on the paths and patterns above: `**` crosses
\* directories, `*` stays inside one, the empty pattern matches only "".
minimatch(path, pattern) ==
    \/ pattern = "**/*.test.ts" /\ path = "a/b.test.ts"
    \/ pattern = "a/**" /\ path \in {"a/b.ts", "a/b.test.ts"}
    \/ pattern = "" /\ path = ""

\* The inputs of the action: core.getInput gives "" for an input that is not
\* set, and MAX_TOKENS is Number of the input, 0 for "".
CompleteConfig(model) ==
    [GITHUB_TOKEN |-> "ghs", OPENAI_API_KEY |-> "sk",
     OPENAI_API_MODEL |-> model, MAX_TOKENS |-> 700]

Configs ==
    { CompleteConfig("gpt-4-1106-preview"), CompleteConfig("gpt-4"),
      [CompleteConfig("gpt-4-1106-preview") EXCEPT !.GITHUB_TOKEN = ""],
      [CompleteConfig("gpt-4-1106-preview") EXCEPT !.OPENAI_API_KEY = ""],
      CompleteConfig(""),
      [CompleteConfig("gpt-4-1106-preview") EXCEPT !.MAX_TOKENS = 0] }

\* The model names part_000 sends `response_format: json_object` for.
JSON_MODELS ==
    {"gpt-4-turbo-preview", "gpt-4-turbo", "gpt-3.5-turbo",
     "gpt-4-0125-preview", "gpt-4-1106-preview", "gpt-3.5-turbo-0125",
     "gpt-3.5-turbo-1106"}

\* Whether the critique request carries `response_format: json_object`:
\* always in src/main.ts, for the listed model names in part_000.
response_format(cfg) == TRUE

response_format_filter(cfg) == cfg.OPENAI_API_MODEL \in JSON_MODELS

Payloads == [ok : BOOLEAN, action : {"opened", "synchronize", "closed"}]

NoCalls == [list |-> 0, update |-> 0, diff |-> 0, critique |-> 0, fix |-> 0,
            createReview |-> 0, prGet |-> 0]

NoStats == [linesAdded |-> 0, linesDeleted |-> 0, linesChanged |-> 0,
            filesChanged |-> 0]

-----------------------------------------------------------------------------
(* Pure functions of src/main.ts                                           *)

\* calculatePRScore with the weights of added and deleted lines exchanged.
calculatePRScore_swapped(s) ==
    3 * s.linesAdded + 5 * s.linesDeleted + 2 * s.linesChanged
      - 50 * s.filesChanged

calculatePRScore(s) ==
    5 * s.linesAdded + 3 * s.linesDeleted + 2 * s.linesChanged
      - 50 * s.filesChanged


\* One pass of extractDiffStats' forEach over every change of every chunk of
\* every file: the array of all changes, in order.
RECURSIVE Flatten(_)
Flatten(ss) == IF ss = << >> THEN << >> ELSE Head(ss) \o Flatten(Tail(ss))

FileChanges(file) ==
    Flatten([c \in 1..Len(file.chunks) |-> file.chunks[c].changes])

DiffChanges(diff) == Flatten([f \in 1..Len(diff) |-> FileChanges(diff[f])])

CountType(changes, types) ==
    Cardinality({i \in DOMAIN changes : changes[i].type \in types})

\* extractDiffStats applied to the files analyzeCode reviews only.
extractDiffStats_reviewed(diff) ==
    LET kept == SelectSeq(diff, LAMBDA file : file.to # DELETED)
        changes == DiffChanges(kept)
    IN  [linesAdded |-> CountType(changes, {"add"}),
         linesDeleted |-> CountType(changes, {"del"}),
         linesChanged |-> CountType(changes, {"normal"}),
         filesChanged |-> Len(kept)]

extractDiffStats(diff) ==
    LET changes == DiffChanges(diff)
    IN  [linesAdded |-> CountType(changes, {"add"}),
         linesDeleted |-> CountType(changes, {"del"}),
         linesChanged |-> CountType(changes, {"normal"}),
         filesChanged |-> Len(diff)]

Clamp(x, lo, hi) == IF x < lo THEN lo ELSE IF x > hi THEN hi ELSE x

\* The summary comment: the raw score in the text, the score clamped to
\* [0, 100] (0..1000 tenths) in the progress bar.
createScoreComment(s) == [score |-> s, progress |-> Clamp(s, 0, 1000)]

\* The chunks of a file visited last to first.
FileHunks_reversed(diff, f) ==
    IF diff[f].to = DELETED
    THEN << >>
    ELSE [c \in 1..Len(diff[f].chunks) |->
            <<f, Len(diff[f].chunks) + 1 - c>>]

\* The (file, chunk) pairs the two for loops of analyzeCode visit, in order:
\* a file whose `to` is /dev/null is skipped.
FileHunks(diff, f) ==
    IF diff[f].to = DELETED
    THEN << >>
    ELSE [c \in 1..Len(diff[f].chunks) |-> <<f, c>>]

ReviewedHunks(diff) == Flatten([f \in 1..Len(diff) |-> FileHunks(diff, f)])

\* The value getAIResponse returns: `JSON.parse(raw).reviews || []`, and []
\* when the call throws, the content is empty or JSON.parse throws.
EmptyArray == [t |-> "array", items |-> << >>]

\* getAIResponse with JSON.parse outside the try block: a content that does
\* not parse is no array for analyzeCode.
getAIResponse_rethrow(resp) ==
    IF resp.kind = "badjson"
    THEN [t |-> "thrown", items |-> << >>]
    ELSE IF resp.kind = "json" /\ resp.reviews.t # "undefined"
         THEN resp.reviews
         ELSE EmptyArray

getAIResponse(resp) ==
    IF resp.kind = "json" /\ resp.reviews.t # "undefined"
    THEN resp.reviews
    ELSE EmptyArray

FALLBACK_FIX == "Unable to generate a fix."

\* suggestCodeFix whose catch block returns nothing.
suggestCodeFix_empty(r) == IF r.ok THEN Trim(r.text) ELSE ""

\* The value suggestCodeFix returns.
suggestCodeFix(r) == IF r.ok THEN Trim(r.text) ELSE FALLBACK_FIX

\* The comment analyzeCode builds for review entry number r of hunk <<f, c>>.
\* `src` is bookkeeping: where the comment was produced.
FindingComment(diff, h, r, response, fix) ==
    [body |-> [critique |-> TemplateString(response.reviewComment),
               fix |-> fix],
     path |-> diff[h[1]].to,
     line |-> Number(response.lineNumber),
     diff_hunk |-> diff[h[1]].chunks[h[2]].content,
     src |-> <<h[1], h[2], r>>]

ScoreComment(s) ==
    [body |-> createScoreComment(s), path |-> "", line |-> Num(0),
     diff_hunk |-> "", src |-> <<0, 0, 0>>]

\* unshift in place of push.
push_front(array, x) == <<x>> \o array

push(array, x) == Append(array, x)

\* The body sent without the marker line.
resolvedBody_unmarked(comment) == comment.body

\* The body resolveExistingComments sends for a listed comment: its body
\* with the marker line appended (bodies are counted in marker lines).
resolvedBody(comment) == comment.body + 1

-----------------------------------------------------------------------------
(* The run of src/main.ts                                                  *)

Terminate(code) == pc' = "exit" /\ exitCode' = code

Goto(p) == pc' = p /\ exitCode' = exitCode

Bump(c, k) == [c EXCEPT ![k] = @ + 1]

SUPPORTED == {"opened", "synchronize"}

InitRun ==
    /\ pc = "start"
    /\ exitCode = 0
    /\ payload \in Payloads
    /\ remote \in { [i \in 1..n |-> 0] : n \in 0..MaxExisting }
    /\ existingComments = << >>
    /\ ei = 0
    /\ updateLog = << >>
    /\ parsedDiff = << >>
    /\ analyzed = << >>
    /\ hk = 0
    /\ aiResponses = << >>
    /\ ri = 0
    /\ comments = << >>
    /\ lastResp = "none"
    /\ lastReviews = "none"
    /\ jsonMode = << >>
    /\ diffResp = "none"
    /\ critiqueLog = << >>
    /\ returned = 0
    /\ calls = NoCalls
    /\ posted = << >>
    /\ stats = NoStats
    /\ score = 0

InitMain ==
    /\ prog = "main"
    /\ exclude = << >>
    /\ config = CompleteConfig("gpt-4-1106-preview")
    /\ InitRun

\* The same run under every configuration of the inputs.
InitConfig ==
    /\ prog = "main"
    /\ exclude = << >>
    /\ config \in Configs
    /\ InitRun

\* handlePullRequest line 258: the request for the diff is sent.
fetchDiff_call ==
    /\ Goto("await_diff")
    /\ calls' = Bump(calls, "diff")

\* The loop of resolveExistingComments at entry i + 1 of `listed`: the update
\* request for it is sent, or the loop is over and handlePullRequest goes on.
resolveExistingComments_next(listed, i) ==
    IF i < Len(listed)
    THEN /\ Goto("await_update")
         /\ calls' = Bump(calls, "update")
    ELSE fetchDiff_call

\* handlePullRequest without line 270: no score comment is pushed.
handlePullRequest_publish_noscore(diff, cs) ==
    /\ stats' = extractDiffStats(diff)
    /\ score' = calculatePRScore(stats')
    /\ comments' = cs
    /\ IF Len(comments') > 0
       THEN /\ posted' = Append(posted, comments')
            /\ calls' = Bump(calls, "createReview")
            /\ Goto("await_createReview")
       ELSE /\ Terminate(0)
            /\ UNCHANGED <<posted, calls>>

\* handlePullRequest lines 266-274: the score comment is pushed and the
\* createReview request is sent.
handlePullRequest_publish(diff, cs) ==
    /\ stats' = extractDiffStats(diff)
    /\ score' = calculatePRScore(stats')
    /\ comments' = push(cs, ScoreComment(score'))
    /\ IF Len(comments') > 0
       THEN /\ posted' = Append(posted, comments')
            /\ calls' = Bump(calls, "createReview")
            /\ Goto("await_createReview")
       ELSE /\ Terminate(0)
            /\ UNCHANGED <<posted, calls>>

\* The loops of analyzeCode at hunk k of ReviewedHunks(diff), `cs` being the
\* comments so far: the critique request for the hunk is sent, or the loops
\* are over and handlePullRequest goes on.
analyzeCode_next(diff, k, cs) ==
    /\ hk' = k
    /\ IF k <= Len(ReviewedHunks(diff))
       THEN /\ Goto("await_critique")
            /\ calls' = Bump(calls, "critique")
            /\ critiqueLog' = Append(critiqueLog, ReviewedHunks(diff)[k])
            /\ jsonMode' = Append(jsonMode, response_format(config))
            /\ comments' = cs
            /\ UNCHANGED <<posted, stats, score>>
       ELSE /\ critiqueLog' = critiqueLog
            /\ jsonMode' = jsonMode
            /\ handlePullRequest_publish(diff, cs)

\* The loop over aiResponses at entry i + 1: the fix request is sent.
suggestCodeFix_call(cs) ==
    /\ Goto("await_fix")
    /\ calls' = Bump(calls, "fix")
    /\ comments' = cs
    /\ UNCHANGED <<hk, critiqueLog, posted, stats, score, jsonMode>>

\* main whose catch block logs the error and does not call process.exit.
main_swallow ==
    /\ prog = "main" /\ pc = "start"
    /\ IF ~payload.ok \/ payload.action \notin SUPPORTED
       THEN Terminate(0) /\ UNCHANGED calls
       ELSE Goto("await_list") /\ calls' = Bump(calls, "list")
    /\ UNCHANGED <<returned, prog, payload, remote, existingComments, ei,
                   updateLog, parsedDiff, exclude, analyzed, hk, aiResponses,
                   ri, comments, lastResp, critiqueLog, posted, stats, score,
                   config, diffResp, jsonMode, lastReviews>>

\* main: getPRDetails reads the payload; a payload it cannot read, parse or
\* destructure throws into main's catch; an unsupported action returns;
\* otherwise handlePullRequest sends the listing request.
main ==
    /\ prog = "main" /\ pc = "start"
    /\ IF ~payload.ok
       THEN Terminate(1) /\ UNCHANGED calls
       ELSE IF payload.action \notin SUPPORTED
            THEN Terminate(0) /\ UNCHANGED calls
            ELSE Goto("await_list") /\ calls' = Bump(calls, "list")
    /\ UNCHANGED <<returned, prog, payload, remote, existingComments, ei,
                   updateLog, parsedDiff, exclude, analyzed, hk, aiResponses,
                   ri, comments, lastResp, critiqueLog, posted, stats, score,
                   config, diffResp, jsonMode, lastReviews>>

\* fetchExistingComments returns the listing, or [] when the call fails;
\* resolveExistingComments starts.
fetchExistingComments ==
    /\ prog = "main" /\ pc = "await_list"
    /\ \E ok \in BOOLEAN :
         /\ existingComments' =
              IF ok
              THEN [i \in 1..Len(remote) |-> [id |-> i, body |-> remote[i]]]
              ELSE << >>
         /\ resolveExistingComments_next(existingComments', 0)
    /\ ei' = 0
    /\ UNCHANGED <<returned, prog, payload, remote, updateLog, parsedDiff,
                   exclude, analyzed, hk, aiResponses, ri, comments, lastResp,
                   critiqueLog, posted, stats, score, config, diffResp,
                   jsonMode, lastReviews>>

\* resolveExistingComments without its try block: a call that throws leaves
\* handlePullRequest and reaches main's catch.
resolveExistingComments_nocatch ==
    /\ prog = "main" /\ pc = "await_update"
    /\ LET comment == existingComments[ei + 1]
       IN  \E ok \in BOOLEAN :
             /\ updateLog' = Append(updateLog, [id |-> comment.id, ok |-> ok])
             /\ IF ok
                THEN /\ remote' = [remote EXCEPT
                                     ![comment.id] = resolvedBody(comment)]
                     /\ ei' = ei + 1
                     /\ resolveExistingComments_next(existingComments, ei + 1)
                ELSE /\ Terminate(1)
                     /\ UNCHANGED <<remote, ei, calls>>
    /\ UNCHANGED <<returned, prog, payload, existingComments, parsedDiff,
                   exclude, analyzed, hk, aiResponses, ri, comments, lastResp,
                   critiqueLog, posted, stats, score, config, diffResp,
                   jsonMode, lastReviews>>

\* resolveExistingComments: an updateReviewComment call returns or throws.
\* The try block encloses the loop: a call that throws ends the loop.
resolveExistingComments ==
    /\ prog = "main" /\ pc = "await_update"
    /\ LET comment == existingComments[ei + 1]
       IN  \E ok \in BOOLEAN :
             /\ updateLog' = Append(updateLog, [id |-> comment.id, ok |-> ok])
             /\ IF ok
                THEN /\ remote' = [remote EXCEPT
                                     ![comment.id] = resolvedBody(comment)]
                     /\ ei' = ei + 1
                     /\ resolveExistingComments_next(existingComments, ei + 1)
                ELSE /\ fetchDiff_call
                     /\ UNCHANGED <<remote, ei>>
    /\ UNCHANGED <<returned, prog, payload, existingComments, parsedDiff,
                   exclude, analyzed, hk, aiResponses, ri, comments, lastResp,
                   critiqueLog, posted, stats, score, config, diffResp,
                   jsonMode, lastReviews>>

\* fetchDiff returns: a failed call rethrows into main's catch, an empty
\* diff returns from handlePullRequest, a diff is parsed and analyzeCode
\* starts.
fetchDiff ==
    /\ prog = "main" /\ pc = "await_diff"
    /\ \/ /\ Terminate(1)
          /\ diffResp' = "throw"
          /\ UNCHANGED <<parsedDiff, analyzed, hk, calls, critiqueLog,
                         comments, posted, stats, score, jsonMode>>
       \/ /\ Terminate(0)
          /\ diffResp' = "empty"
          /\ UNCHANGED <<parsedDiff, analyzed, hk, calls, critiqueLog,
                         comments, posted, stats, score, jsonMode>>
       \/ \E d \in Diffs :
            /\ diffResp' = "text"
            /\ parsedDiff' = d
            /\ analyzed' = d
            /\ analyzeCode_next(d, 1, << >>)
    /\ UNCHANGED <<returned, prog, payload, remote, existingComments, ei,
                   updateLog, exclude, aiResponses, ri, lastResp, config,
                   lastReviews>>

\* analyzeCode after `await getAIResponse(prompt)`: an array is iterated, any
\* other truthy value makes `for ... of` throw into main's catch.
analyzeCode_response ==
    /\ prog = "main" /\ pc = "await_critique"
    /\ \E resp \in ChatResponses(MaxFindings - Len(comments)) :
         LET v == getAIResponse(resp)
         IN  /\ lastResp' = resp.kind
             /\ lastReviews' = reviewsType(resp)
             /\ returned' = returned + Len(v.items)
             /\ IF v.t = "array"
                THEN /\ aiResponses' = v.items
                     /\ ri' = 0
                     /\ IF v.items = << >>
                        THEN analyzeCode_next(analyzed, hk + 1, comments)
                        ELSE suggestCodeFix_call(comments)
                ELSE /\ Terminate(1)
                     /\ UNCHANGED <<aiResponses, ri, hk, comments, calls,
                                    critiqueLog, posted, stats, score,
                                    jsonMode>>
    /\ UNCHANGED <<prog, payload, remote, existingComments, ei, updateLog,
                   parsedDiff, exclude, analyzed, config, diffResp>>

\* analyzeCode after `await suggestCodeFix(...)`: the comment is pushed.
analyzeCode_fix_on(r) ==
    /\ prog = "main" /\ pc = "await_fix"
    /\   LET cs == push(comments,
                        FindingComment(analyzed, ReviewedHunks(analyzed)[hk],
                                       ri + 1, aiResponses[ri + 1],
                                       suggestCodeFix(r)))
         IN  IF ri + 1 < Len(aiResponses)
             THEN suggestCodeFix_call(cs)
             ELSE analyzeCode_next(analyzed, hk + 1, cs)
    /\ ri' = ri + 1
    /\ UNCHANGED <<returned, prog, payload, remote, existingComments, ei,
                   updateLog, parsedDiff, exclude, analyzed, aiResponses,
                   lastResp, config, diffResp, lastReviews>>

analyzeCode_fix == \E r \in FixResponses : analyzeCode_fix_on(r)

\* postReviewComments: the createReview call returns or throws; the throw is
\* caught and logged, and main returns either way.
postReviewComments ==
    /\ prog = "main" /\ pc = "await_createReview"
    /\ \E ok \in BOOLEAN : Terminate(0)
    /\ UNCHANGED <<returned, prog, payload, remote, existingComments, ei,
                   updateLog, parsedDiff, exclude, analyzed, hk, aiResponses,
                   ri, comments, lastResp, critiqueLog, calls, posted, stats,
                   score, config, diffResp, jsonMode, lastReviews>>

Next ==
    \/ main
    \/ fetchExistingComments
    \/ resolveExistingComments
    \/ fetchDiff
    \/ analyzeCode_response
    \/ analyzeCode_fix
    \/ postReviewComments

Spec == InitMain /\ [][Next]_vars

SpecConfig == InitConfig /\ [][Next]_vars

-----------------------------------------------------------------------------
(* calculatePRScore on its own                                             *)

ExampleStats ==
    [linesAdded |-> 10, linesDeleted |-> 4, linesChanged |-> 2,
     filesChanged |-> 1]

StatsInputs ==
    [linesAdded : 0..MaxCount, linesDeleted : 0..MaxCount,
     linesChanged : 0..MaxCount, filesChanged : 0..MaxCount]
      \cup {ExampleStats}

InitScore ==
    /\ prog = "score"
    /\ exclude = << >>
    /\ config = CompleteConfig("gpt-4-1106-preview")
    /\ InitRun
    /\ payload = [ok |-> TRUE, action |-> "opened"]
    /\ remote = << >>

Score ==
    /\ prog = "score" /\ pc = "start"
    /\ \E s \in StatsInputs :
         /\ stats' = s
         /\ score' = calculatePRScore(s)
    /\ Terminate(0)
    /\ UNCHANGED <<returned, prog, payload, remote, existingComments, ei,
                   updateLog, parsedDiff, exclude, analyzed, hk, aiResponses,
                   ri, comments, lastResp, critiqueLog, calls, posted, config,
                   diffResp, jsonMode, lastReviews>>

SpecScore == InitScore /\ [][Score]_vars

-----------------------------------------------------------------------------
(* The run of unnamed/part_000: the variant with the path filter           *)

\* The filter without `.map((s) => s.trim())`.
filterDiff_untrimmed(diff, pieces) ==
    LET kept(file) == ~ \E i \in DOMAIN pieces : minimatch(file.to, pieces[i])
    IN  SelectSeq(diff, kept)

\* main lines 226-229: the pieces are trimmed, a file matching one of the
\* patterns is dropped.
filterDiff(diff, pieces) ==
    LET excludePatterns == [i \in DOMAIN pieces |-> Trim(pieces[i])]
        kept(file) == ~ \E i \in DOMAIN excludePatterns :
                           minimatch(file.to, excludePatterns[i])
    IN  SelectSeq(diff, kept)

\* The value getAIResponse of part_000 returns: `parsed?.reviews`, with "{}"
\* parsed when the content is empty, and null when the call or JSON.parse
\* throws.
Null == [t |-> "null", items |-> << >>]

getAIResponse_filter(resp) ==
    CASE resp.kind \in {"throw", "badjson"} -> Null
      [] resp.kind = "empty" -> [t |-> "undefined", items |-> << >>]
      [] OTHER -> resp.reviews

\* createComment: one comment per entry, none when the file has no `to`.
createComment(diff, h, aiResponse) ==
    IF diff[h[1]].to = ""
    THEN << >>
    ELSE [r \in DOMAIN aiResponse |->
            [body |-> [critique |-> aiResponse[r].reviewComment],
             path |-> diff[h[1]].to,
             line |-> Number(aiResponse[r].lineNumber),
             diff_hunk |-> diff[h[1]].chunks[h[2]].content,
             src |-> <<h[1], h[2], r>>]]

InitFilter ==
    /\ prog = "filter"
    /\ exclude = << >>
    /\ config \in {CompleteConfig("gpt-4-1106-preview"),
                   CompleteConfig("gpt-4")}
    /\ InitRun

\* The loop of fetchAndResolveExistingComments at entry i + 1 of `listed`.
resolve_next_filter(listed, i) ==
    IF i < Len(listed)
    THEN /\ Goto("await_update")
         /\ calls' = Bump(calls, "update")
    ELSE fetchDiff_call

\* The loops of analyzeCode at hunk k, or main lines 232-239 when they are
\* over: the review is created when there is a comment.
analyzeCode_next_filter(diff, k, cs) ==
    /\ hk' = k
    /\ comments' = cs
    /\ IF k <= Len(ReviewedHunks(diff))
       THEN /\ Goto("await_critique")
            /\ calls' = Bump(calls, "critique")
            /\ critiqueLog' = Append(critiqueLog, ReviewedHunks(diff)[k])
            /\ jsonMode' = Append(jsonMode, response_format_filter(config))
            /\ posted' = posted
       ELSE /\ critiqueLog' = critiqueLog
            /\ jsonMode' = jsonMode
            /\ IF Len(cs) > 0
               THEN /\ posted' = Append(posted, cs)
                    /\ calls' = Bump(calls, "createReview")
                    /\ Goto("await_createReview")
               ELSE /\ Terminate(0)
                    /\ UNCHANGED <<posted, calls>>

\* main line 204: getPRDetails parses the payload and asks for the PR.
main_filter ==
    /\ prog = "filter" /\ pc = "start"
    /\ IF ~payload.ok
       THEN Terminate(1) /\ UNCHANGED calls
       ELSE Goto("await_pr") /\ calls' = Bump(calls, "prGet")
    /\ UNCHANGED <<returned, prog, payload, remote, existingComments, ei,
                   updateLog, parsedDiff, exclude, analyzed, hk, aiResponses,
                   ri, comments, lastResp, critiqueLog, posted, stats, score,
                   config, diffResp, jsonMode, lastReviews>>

\* main lines 204-212: getPRDetails returns or throws; an unsupported action
\* returns, a supported one sends the listing request.
getPRDetails_filter ==
    /\ prog = "filter" /\ pc = "await_pr"
    /\ \/ Terminate(1) /\ UNCHANGED calls
       \/ IF payload.action \in SUPPORTED
          THEN Goto("await_list") /\ calls' = Bump(calls, "list")
          ELSE Terminate(0) /\ UNCHANGED calls
    /\ UNCHANGED <<returned, prog, payload, remote, existingComments, ei,
                   updateLog, parsedDiff, exclude, analyzed, hk, aiResponses,
                   ri, comments, lastResp, critiqueLog, posted, stats, score,
                   config, diffResp, jsonMode, lastReviews>>

\* fetchAndResolveExistingComments: the listing returns, or throws out of
\* main.
listReviewComments_filter ==
    /\ prog = "filter" /\ pc = "await_list"
    /\ \/ /\ Terminate(1)
          /\ UNCHANGED <<existingComments, calls>>
       \/ /\ existingComments' =
               [i \in 1..Len(remote) |-> [id |-> i, body |-> remote[i]]]
          /\ resolve_next_filter(existingComments', 0)
    /\ ei' = 0
    /\ UNCHANGED <<returned, prog, payload, remote, updateLog, parsedDiff,
                   exclude, analyzed, hk, aiResponses, ri, comments, lastResp,
                   critiqueLog, posted, stats, score, config, diffResp,
                   jsonMode, lastReviews>>

\* fetchAndResolveExistingComments: an update returns, or throws out of main.
updateReviewComment_filter ==
    /\ prog = "filter" /\ pc = "await_update"
    /\ LET comment == existingComments[ei + 1]
       IN  \/ /\ updateLog' = Append(updateLog,
                                      [id |-> comment.id, ok |-> FALSE])
              /\ Terminate(1)
              /\ UNCHANGED <<remote, ei, calls>>
           \/ /\ updateLog' = Append(updateLog,
                                      [id |-> comment.id, ok |-> TRUE])
              /\ remote' = [remote EXCEPT ![comment.id] = resolvedBody(comment)]
              /\ ei' = ei + 1
              /\ resolve_next_filter(existingComments, ei + 1)
    /\ UNCHANGED <<returned, prog, payload, existingComments, parsedDiff,
                   exclude, analyzed, hk, aiResponses, ri, comments, lastResp,
                   critiqueLog, posted, stats, score, config, diffResp,
                   jsonMode, lastReviews>>

\* main lines 214-231: getDiff throws out of main, or returns nothing, or
\* returns a diff, which is parsed and filtered.
getDiff_filter ==
    /\ prog = "filter" /\ pc = "await_diff"
    /\ \/ /\ Terminate(1)
          /\ diffResp' = "throw"
          /\ UNCHANGED <<parsedDiff, exclude, analyzed, hk, calls,
                         critiqueLog, comments, posted, jsonMode>>
       \/ /\ Terminate(0)
          /\ diffResp' = "empty"
          /\ UNCHANGED <<parsedDiff, exclude, analyzed, hk, calls,
                         critiqueLog, comments, posted, jsonMode>>
       \/ \E d \in Diffs, x \in ExcludeInputs :
            /\ diffResp' = "text"
            /\ parsedDiff' = d
            /\ exclude' = x
            /\ analyzed' = filterDiff(d, x)
            /\ analyzeCode_next_filter(analyzed', 1, << >>)
    /\ UNCHANGED <<returned, prog, payload, remote, existingComments, ei,
                   updateLog, aiResponses, ri, lastResp, stats, score, config,
                   lastReviews>>

\* analyzeCode lines 71-77: null and undefined are skipped, an array is
\* mapped by createComment, any other truthy value has no flatMap and
\* throws out of main.
analyzeCode_response_filter ==
    /\ prog = "filter" /\ pc = "await_critique"
    /\ \E resp \in ChatResponses(MaxFindings - Len(comments)) :
         LET v == getAIResponse_filter(resp)
         IN  /\ lastResp' = resp.kind
             /\ lastReviews' = reviewsType(resp)
             /\ returned' = returned + Len(v.items)
             /\ CASE v.t \in {"null", "undefined"} ->
                       /\ analyzeCode_next_filter(analyzed, hk + 1, comments)
                       /\ UNCHANGED aiResponses
                  [] v.t = "array" ->
                       /\ aiResponses' = v.items
                       /\ analyzeCode_next_filter(
                            analyzed, hk + 1,
                            comments \o createComment(
                                          analyzed,
                                          ReviewedHunks(analyzed)[hk],
                                          v.items))
                  [] OTHER ->
                       /\ Terminate(1)
                       /\ UNCHANGED <<aiResponses, hk, comments, calls,
                                      critiqueLog, posted, jsonMode>>
    /\ UNCHANGED <<prog, payload, remote, existingComments, ei, updateLog,
                   parsedDiff, exclude, analyzed, ri, stats, score, config,
                   diffResp>>

\* createReviewComment: the call returns, or throws out of main.
createReviewComment_filter ==
    /\ prog = "filter" /\ pc = "await_createReview"
    /\ \E ok \in BOOLEAN : Terminate(IF ok THEN 0 ELSE 1)
    /\ UNCHANGED <<returned, prog, payload, remote, existingComments, ei,
                   updateLog, parsedDiff, exclude, analyzed, hk, aiResponses,
                   ri, comments, lastResp, critiqueLog, calls, posted, stats,
                   score, config, diffResp, jsonMode, lastReviews>>

NextFilter ==
    \/ main_filter
    \/ getPRDetails_filter
    \/ listReviewComments_filter
    \/ updateReviewComment_filter
    \/ getDiff_filter
    \/ analyzeCode_response_filter
    \/ createReviewComment_filter

SpecFilter == InitFilter /\ [][NextFilter]_vars

-----------------------------------------------------------------------------
(* Properties                                                              *)

IsSummary(c) == c.path = "" /\ c.line = Num(0)

IsFinding(c) == c.path # ""

FindingsOf(cs) == SelectSeq(cs, IsFinding)

IsPrefix(a, b) == Len(a) <= Len(b) /\ SubSeq(b, 1, Len(a)) = a

LexLess(a, b) ==
    \/ a[1] < b[1]
    \/ a[1] = b[1] /\ a[2] < b[2]
    \/ a[1] = b[1] /\ a[2] = b[2] /\ a[3] < b[3]

\* The run had a supported action and fetched and parsed a non-empty diff.
ReviewRun == payload.ok /\ payload.action \in SUPPORTED /\ hk > 0

C2_SummaryIsLast ==
    /\ calls.createReview = Len(posted)
    /\ \A k \in DOMAIN posted :
         LET cs == posted[k]
         IN  /\ Len(cs) >= 1
             /\ IsSummary(cs[Len(cs)])
             /\ \A i \in 1..(Len(cs) - 1) : ~ IsSummary(cs[i])

C2_Witness ==
    /\ pc = "await_createReview"
    /\ Len(posted) = 1
    /\ Len(posted[1]) = 3
    /\ IsSummary(posted[1][3])

\* C3 as claimed: when the payload's action is neither "opened" nor
\* "synchronize", no diff is fetched, no model call, no comment update and
\* no createReview call is made, and the process ends with exit code 0.
C3_UnsupportedActionIsNoOp ==
    payload.action \notin SUPPORTED =>
        /\ calls.diff = 0 /\ calls.critique = 0 /\ calls.fix = 0
        /\ calls.update = 0 /\ calls.createReview = 0
        /\ (pc = "exit" => exitCode = 0)

\* C4: the hunks a critique request is issued for are exactly the hunks of
\* the files of the diff whose path is not /dev/null and matches no
\* exclusion pattern, in diff order, and no comment carries the path of a
\* dropped file.
ExcludedPath(path) ==
    \E i \in DOMAIN exclude : minimatch(path, Trim(exclude[i]))

KeptFiles ==
    SelectSeq(parsedDiff,
              LAMBDA file : file.to # "/dev/null" /\ ~ ExcludedPath(file.to))

ExpectedRequests ==
    Flatten([i \in DOMAIN KeptFiles |->
               [c \in 1..Len(KeptFiles[i].chunks) |-> <<KeptFiles[i].to, c>>]])

IssuedRequests ==
    [k \in DOMAIN critiqueLog |->
       <<analyzed[critiqueLog[k][1]].to, critiqueLog[k][2]>>]

AnalysisOver ==
    calls.createReview = 1 \/ (pc = "exit" /\ exitCode = 0 /\ hk > 0)

C4_ReviewedFilesAreTheKeptFiles ==
    /\ IsPrefix(IssuedRequests, ExpectedRequests)
    /\ AnalysisOver => IssuedRequests = ExpectedRequests
    /\ \A i \in DOMAIN comments :
         \E k \in DOMAIN KeptFiles : comments[i].path = KeptFiles[k].to

C4_Witness ==
    /\ prog = "filter"
    /\ AnalysisOver
    /\ [i \in DOMAIN parsedDiff |-> parsedDiff[i].to]
         = <<"a/b.ts", "a/b.test.ts", "/dev/null">>
    /\ exclude = <<" **/*.test.ts">>
    /\ IssuedRequests = << <<"a/b.ts", 1>>, <<"a/b.ts", 2>> >>
    /\ Len(comments) = 2

\* C5: a critique request that throws, or whose answer is not parseable
\* JSON, does not leave the hunk's processing: the hunk adds no finding, and
\* the run sends the critique request of the next hunk or, after the last
\* hunk, the createReview request.
CritiqueFailures == {"throw", "badjson"}

C5_CritiqueFailureIsContained ==
    [][ (prog = "main" /\ pc = "await_critique"
           /\ lastResp' \in CritiqueFailures)
        =>
        /\ FindingsOf(comments') = comments
        /\ returned' = returned
        /\ IF hk < Len(ReviewedHunks(analyzed))
           THEN /\ pc' = "await_critique"
                /\ critiqueLog' =
                     Append(critiqueLog, ReviewedHunks(analyzed)[hk + 1])
           ELSE /\ pc' = "await_createReview"
                /\ Len(posted') = Len(posted) + 1 ]_vars

C5_Witness ==
    /\ prog = "main"
    /\ lastResp \in CritiqueFailures
    /\ pc = "await_createReview"
    /\ Len(critiqueLog) >= 2
    /\ Len(FindingsOf(comments)) >= 1

\* C6: when the fix request of a finding fails, the comment of the finding
\* is still added, at the path of the file and the line of the finding,
\* with the critique text and the fallback string as the fix, and the run
\* goes on with the next finding, the next hunk or the createReview request.
FailedFixes == {r \in FixResponses : ~ r.ok}

C6_FixFailureKeepsTheFinding ==
    [][ \A r \in FailedFixes :
          analyzeCode_fix_on(r) =>
            LET entry == aiResponses[ri + 1]
                h == ReviewedHunks(analyzed)[hk]
                after == FindingsOf(comments')
                new == after[Len(after)]
            IN  /\ Len(after) = Len(comments) + 1
                /\ IsPrefix(comments, after)
                /\ new.path = analyzed[h[1]].to
                /\ new.line = Number(entry.lineNumber)
                /\ new.body.critique = entry.reviewComment
                /\ new.body.fix = "Unable to generate a fix."
                /\ pc' \in {"await_fix", "await_critique",
                            "await_createReview"} ]_vars

C6_Witness ==
    /\ prog = "main"
    /\ pc = "await_createReview"
    /\ Len(comments) = 3
    /\ comments[1].body.fix = "Unable to generate a fix."
    /\ comments[2].body.fix = "x"

\* C7 as claimed: a run with a supported action and a non-empty diff makes
\* exactly one createReview call, whose list has one comment per review
\* entry the model returned plus the summary, each finding comment carrying
\* the file's path, the entry's line number, the critique and the fix.
C7_OneReviewWithAllFindings ==
    /\ calls.createReview <= 1
    /\ (ReviewRun /\ pc = "exit") =>
         /\ calls.createReview = 1
         /\ Len(posted) = 1
         /\ Len(posted[1]) = returned + 1
         /\ \A i \in 1..returned :
              LET c == posted[1][i]
              IN  /\ c.path = analyzed[c.src[1]].to
                  /\ c.path # "/dev/null"
                  /\ \E e \in Entries :
                       /\ c.line = Number(e.lineNumber)
                       /\ c.body.critique = e.reviewComment
                  /\ c.body.fix \in {"x", "Unable to generate a fix."}

\* C8: the finding comments of the posted review are in production order:
\* by file of the diff, then by hunk of the file, then by position in the
\* `reviews` array of the hunk.
C8_FindingsInProductionOrder ==
    \A k \in DOMAIN posted :
      \A i, j \in DOMAIN posted[k] :
        (i < j /\ IsFinding(posted[k][i]) /\ IsFinding(posted[k][j]))
          => LexLess(posted[k][i].src, posted[k][j].src)

C8_Witness ==
    /\ prog = "main"
    /\ Len(posted) = 1
    /\ Len(posted[1]) = 3
    /\ posted[1][1].src[1] < posted[1][2].src[1]

\* C9 as claimed: when the createReview call is issued, every review comment
\* that existed at the start of the run carries the marker line.
C9_AllExistingResolved ==
    calls.createReview >= 1 => \A id \in DOMAIN remote : remote[id] = 1

\* C9 amended: when the createReview call is issued, every review comment
\* whose update call succeeded carries the marker line once, and so does
\* every comment that existed at the start when the listing and all the
\* updates succeeded; a comment without a successful update is unchanged;
\* no update call follows a createReview call.
UpdatedIds ==
    {updateLog[k].id : k \in {n \in DOMAIN updateLog : updateLog[n].ok}}

AllUpdatesSucceeded ==
    /\ Len(existingComments) = Len(remote)
    /\ Len(updateLog) = Len(remote)
    /\ \A k \in DOMAIN updateLog : updateLog[k].ok

C9_UpdatedCommentsResolved ==
    calls.createReview >= 1 =>
        /\ \A id \in DOMAIN remote :
             remote[id] = IF id \in UpdatedIds THEN 1 ELSE 0
        /\ AllUpdatesSucceeded => \A id \in DOMAIN remote : remote[id] = 1
        /\ pc \in {"await_createReview", "exit"}

C9_Witness ==
    /\ prog = "main"
    /\ pc = "await_createReview"
    /\ Len(remote) = 2
    /\ AllUpdatesSucceeded
    /\ remote[1] = 1 /\ remote[2] = 1

\* C10 as claimed: an update call is attempted for every listed comment,
\* whichever earlier update calls failed.
C10_EveryListedCommentIsUpdated ==
    pc \notin {"start", "await_list", "await_update"} =>
        calls.update = Len(existingComments)

\* C11: a failure of the resolve-existing step (the listing fails, or an
\* update fails) does not halt the run: the step that takes the failure
\* sends the request for the diff, and no step of the resolve phase ends the
\* process.
ListingFailed == existingComments = << >> /\ Len(remote) > 0

UpdateFailed == \E k \in DOMAIN updateLog : ~ updateLog[k].ok

C11_ResolveFailureDoesNotHalt ==
    [][ (prog = "main" /\ pc \in {"await_list", "await_update"})
        =>
        /\ pc' \in {"await_update", "await_diff"}
        /\ (ListingFailed' \/ UpdateFailed') =>
             /\ pc' = "await_diff"
             /\ calls'.diff = calls.diff + 1 ]_vars

C11_Witness ==
    /\ prog = "main"
    /\ UpdateFailed
    /\ pc = "await_createReview"
    /\ calls.diff = 1
    /\ Len(critiqueLog) >= 1
    /\ calls.createReview = 1

\* C12 as claimed: when the request for the diff fails, no model call and no
\* createReview call is made and the process ends with exit code 0.
C12_DiffFailureExitsZero ==
    diffResp = "throw" =>
        /\ calls.critique = 0 /\ calls.fix = 0 /\ calls.createReview = 0
        /\ pc = "exit"
        /\ exitCode = 0

\* C13: the exit code is 1 exactly when an error escaped to main's catch
\* (the payload cannot be read, fetchDiff rethrows, or `for ... of` throws
\* on a `reviews` value that is not iterable), the step that raises such an
\* error ends the process, no step follows the end of the process, and
\* every other run ends with exit code 0.
ErrorEscaped ==
    \/ ~ payload.ok
    \/ diffResp = "throw"
    \/ lastReviews = "object"

C13_ExitOneIffErrorEscaped ==
    [][ /\ pc # "exit"
        /\ ErrorEscaped' => pc' = "exit"
        /\ pc' = "exit" => (exitCode' = 1 <=> ErrorEscaped')
        /\ pc' = "exit" => exitCode' \in {0, 1} ]_vars

C13_Witness ==
    /\ prog = "main"
    /\ pc = "exit"
    /\ exitCode = 1
    /\ lastReviews = "object"
    /\ calls.critique = 2
    /\ calls.createReview = 0

\* C14 as claimed: when a required input (token, API key, model name, max
\* output tokens) is missing, no host or model call is made and the process
\* ends with exit code 1.
ConfigMissing ==
    \/ config.GITHUB_TOKEN = ""
    \/ config.OPENAI_API_KEY = ""
    \/ config.OPENAI_API_MODEL = ""
    \/ config.MAX_TOKENS = 0

C14_MissingConfigExitsOne ==
    ConfigMissing =>
        /\ calls = NoCalls
        /\ pc = "exit" => exitCode = 1

\* C15 as claimed: a critique request asks for the JSON output mode if and
\* only if the configured model name is one of the names known to support
\* it.
C15_JsonModeIffKnownModel ==
    \A k \in DOMAIN jsonMode :
        jsonMode[k] <=> config.OPENAI_API_MODEL \in JSON_MODELS

\* C16: model requests are sequential.  A step issues at most one model
\* request, and only as it takes the answer to the request that was
\* outstanding (or to the diff request): the critique requests follow the
\* diff order, by file and then by hunk; the critique request of a hunk is
\* issued only when the previous hunk's critique response and all of its
\* fix requests have returned; a fix request is outstanding only while the
\* run awaits it.
ModelCalls(c) == c.critique + c.fix

AllHunks(diff) ==
    Flatten([f \in 1..Len(diff) |->
               [c \in 1..Len(diff[f].chunks) |-> <<f, c>>]])

DiffOrder(diff) ==
    SelectSeq(AllHunks(diff), LAMBDA h : diff[h[1]].to # "/dev/null")

CommentsOfHunk(cs, h) ==
    Cardinality({i \in DOMAIN cs :
                   cs[i].src[1] = h[1] /\ cs[i].src[2] = h[2]})

C16_ModelRequestsAreSequential ==
    [][ prog = "main" =>
        /\ ModelCalls(calls') <= ModelCalls(calls) + 1
        /\ calls'.fix - Len(FindingsOf(comments'))
             = IF pc' = "await_fix" THEN 1 ELSE 0
        /\ calls'.fix > calls.fix =>
             /\ pc \in {"await_critique", "await_fix"}
             /\ pc' = "await_fix"
        /\ calls'.critique > calls.critique =>
             /\ pc \in {"await_diff", "await_critique", "await_fix"}
             /\ pc' = "await_critique"
             /\ Len(critiqueLog') = calls'.critique
             /\ IsPrefix(critiqueLog', DiffOrder(analyzed'))
             /\ critiqueLog # << >> =>
                  CommentsOfHunk(comments', critiqueLog[Len(critiqueLog)])
                    = Len(aiResponses') ]_vars

C16_Witness ==
    /\ prog = "main"
    /\ pc = "await_critique"
    /\ calls.critique = 2
    /\ calls.fix = 2
    /\ Len(comments) = 2
    /\ critiqueLog = << <<1, 1>>, <<1, 2>> >>

\* C17 as claimed: the line of every finding comment of a posted review is
\* a number, and the number of a line of the hunk the finding was produced
\* from.
HunkLines(diff, h) ==
    LET changes == diff[h[1]].chunks[h[2]].changes
    IN  {changes[i].ln : i \in DOMAIN changes}

C17_LineIsInsideTheHunk ==
    \A k \in DOMAIN posted :
      \A i \in DOMAIN posted[k] :
        LET c == posted[k][i]
        IN  IsFinding(c) =>
              /\ ~ c.line.nan
              /\ c.line.n \in HunkLines(analyzed, <<c.src[1], c.src[2]>>)

\* C18 as claimed: a response that parses as JSON and violates the schema
\* (`reviews` missing or no array, an entry without a reviewComment string)
\* gives no finding and raises no exception: the run goes on with the next
\* hunk or the createReview request and does not end with exit code 1.
C18_SchemaViolationIsNoFinding ==
    /\ lastReviews \in {"undefined", "object"} =>
         \/ pc \in {"await_critique", "await_createReview"}
         \/ pc = "exit" /\ exitCode = 0
    /\ \A i \in DOMAIN comments :
         IsFinding(comments[i]) => comments[i].body.critique # "undefined"

\* C19: the DiffStats the score is computed from cover the whole parsed
\* diff: filesChanged is the number of file entries, deleted files
\* included; every line change of every hunk is counted once, in linesAdded
\* when added, in linesDeleted when deleted, in linesChanged otherwise, so
\* the three sum to the number of line changes; the four counts are >= 0.
ChangeIds(diff) ==
    UNION { UNION { { <<f, c, i>> : i \in DOMAIN diff[f].chunks[c].changes }
                    : c \in DOMAIN diff[f].chunks }
            : f \in DOMAIN diff }

ChangeType(diff, id) == diff[id[1]].chunks[id[2]].changes[id[3]].type

StatsComputed == prog = "main" /\ calls.createReview >= 1

C19_StatsCoverTheWholeDiff ==
    StatsComputed =>
      LET ids == ChangeIds(parsedDiff)
          added == {id \in ids : ChangeType(parsedDiff, id) = "add"}
          deleted == {id \in ids : ChangeType(parsedDiff, id) = "del"}
      IN  /\ stats.filesChanged = Len(parsedDiff)
          /\ stats.linesAdded = Cardinality(added)
          /\ stats.linesDeleted = Cardinality(deleted)
          /\ stats.linesChanged = Cardinality(ids \ (added \cup deleted))
          /\ stats.linesAdded + stats.linesDeleted + stats.linesChanged
               = Cardinality(ids)
          /\ stats.linesAdded >= 0 /\ stats.linesDeleted >= 0
          /\ stats.linesChanged >= 0 /\ stats.filesChanged >= 0
          /\ score = 5 * stats.linesAdded + 3 * stats.linesDeleted
                       + 2 * stats.linesChanged - 50 * stats.filesChanged

C19_Witness ==
    /\ StatsComputed
    /\ Len(parsedDiff) = 3
    /\ \E f \in DOMAIN parsedDiff : parsedDiff[f].to = "/dev/null"
    /\ stats = [linesAdded |-> 4, linesDeleted |-> 4, linesChanged |-> 4,
                filesChanged |-> 3]

====
